---- MODULE Spec2Model ----
(***************************************************************************)
(* SOL payment reconciliation of the storefront bot (src/sol_payment.py):  *)
(* create_sol_payment, cancel_sol_payment and the matcher                  *)
(* check_pending_payments, run by concurrent workers.                      *)
(*                                                                         *)
(* A worker is one invocation of check_pending_payments.  It is a          *)
(* coroutine: it gives up the event loop only at an await (the sleep       *)
(* between cycles, _unreserve_basket_items, check_wallet_transactions,     *)
(* forward_split_payment, finalize_sol_purchase).  `running` names the     *)
(* worker that is between two awaits; while it is set nothing else moves.  *)
(*                                                                         *)
(* Amounts: expected amounts are in micro-SOL (6 decimals, as quantized by *)
(* create_sol_payment), transfers in lamports (9 decimals, as reported by  *)
(* the chain).  Time is in minutes.  Block times are taken to be present   *)
(* (non-null) on every transfer.  SQLite statements are taken to succeed.  *)
(***************************************************************************)
EXTENDS Integers, Sequences, FiniteSets, TLC

\* ---------------------------------------------------------------- bounds
\* customer and clock events in one run: payments created or cancelled,
\* transfers landed, clock advances
MaxEvents == 3

\* ------------------------------------------------------ program constants
StallMinutes == 2
ExpiryMinutes == 20
RecentMinutes == 30
MIN_SOL_MICRO == 10000

Workers == {"w1", "w2"}
NoWorker == "none"
\* transaction_signature IS NULL
NoSignature == 0
\* nothing has returned yet
NoReturn == [ none |-> TRUE ]

\* the clock advances by one of these amounts (minutes)
TickSteps == {2, 3, 21}

\* inputs of create_sol_payment: basket payout tags, total in EUR cents,
\* oracle price in EUR cents per SOL, random offset in micro-SOL
Baskets == {<<"wallet1">>, <<"split">>}
EurCents == {1500}
PriceCents == {15000}
Offsets == {1}

\* incoming transfers seen on chain: destination wallet and lamports
TransferWallets == {"wallet1", "middleman"}
TransferLamports == {101001000, 101110000}

\* results of forward_split_payment
ForwardResults ==
    { [wallet1 |-> TRUE,  wallet2 |-> TRUE],
      [wallet1 |-> FALSE, wallet2 |-> TRUE],
      [wallet1 |-> FALSE, wallet2 |-> FALSE] }

VARIABLES
    now,                          \* datetime.now(timezone.utc), minutes
    events,                       \* customer, clock and upstream events so far
    pending_sol_payments,         \* payment_id -> row
    processed_sol_transactions,   \* rows [signature, payment_id], in insert order
    chain,                        \* incoming transfers, newest first
    worker,                       \* per worker: position and locals
    running,                      \* worker holding the event loop, or NoWorker
    unreserved,                   \* payment_id -> calls of _unreserve_basket_items
    finalize_calls,               \* payment_id -> calls of finalize_sol_purchase
    returned,                     \* what the last call of a modelled function returned
    sol_price_cache,              \* [price, timestamp] of get_sol_price_eur
    retry,                        \* the call of retry_rpc_call: position and locals
    sig_response,                 \* get_signatures_for_address: signatures with their data
    middleman_balance,            \* lamports held by the middleman wallet
    sent,                         \* transfers sent by forward_split_payment, in order
    forwarder,                    \* per caller of forward_split_payment: position and locals
    split_forward_lock,           \* holder of _split_forward_lock, or NoWorker
    sol_forwarding_log,           \* rows of sol_forwarding_log, in insert order
    products,                     \* product id -> [available]
    product_media,                \* product ids that have product_media rows
    purchases,                    \* rows of purchases, in insert order
    discount_codes,               \* [uses_count, max_uses] of the discount code
    users_basket,                 \* user -> users.basket is still filled
    finalizer                     \* per call of _finalize_purchase: position and locals

\* the store and the workers of the matcher
matcher_vars == << now, events, pending_sol_payments, processed_sol_transactions,
                   chain, worker, running, unreserved, finalize_calls >>

\* state of the collaborators of the matcher
rpc_vars == << retry, sig_response >>
oracle_vars == << sol_price_cache, rpc_vars >>
forward_vars == << middleman_balance, sent, forwarder, split_forward_lock,
                  sol_forwarding_log >>
shop_vars == << products, product_media, purchases, discount_codes,
               users_basket, finalizer >>
other_vars == << oracle_vars, forward_vars, shop_vars >>

vars == << matcher_vars, returned, other_vars >>

Pids == 1..MaxEvents
Rows == DOMAIN pending_sol_payments

\* ------------------------------------------------------- pure functions

CeilDiv(a, b) == (a + b - 1) \div b

\* determine_payment_wallet; an item of a basket snapshot is its payout tag,
\* NoTag for an item without one: item.get('payout_wallet', 'wallet1')
NoTag == "missing"
payout_wallet(item) == IF item = NoTag THEN "wallet1" ELSE item

TagsOf(basket_snapshot) ==
    { payout_wallet(basket_snapshot[i]) : i \in 1..Len(basket_snapshot) }

\* a wallet choice that sends a basket of several direct tags to the first one
determine_payment_wallet_first(basket_snapshot) ==
    IF Len(basket_snapshot) = 0 THEN "wallet1"
    ELSE IF "split" \in TagsOf(basket_snapshot) THEN "middleman"
    ELSE payout_wallet(basket_snapshot[1])

determine_payment_wallet(basket_snapshot) ==
    IF Len(basket_snapshot) = 0 THEN "wallet1"
    ELSE IF "split" \in TagsOf(basket_snapshot) THEN "middleman"
    ELSE IF Cardinality(TagsOf(basket_snapshot)) = 1
         THEN CHOOSE t \in TagsOf(basket_snapshot) : TRUE
    ELSE "middleman"

\* create_sol_payment, amount computation (micro-SOL, both quantize ROUND_UP)
sol_amount_base(total_eur, sol_price) == CeilDiv(total_eur * 1000000, sol_price)

sol_amount(total_eur, sol_price, random_offset) ==
    CeilDiv(sol_amount_base(total_eur, sol_price) * 101, 100) + random_offset

\* tolerance band of the matcher; expected in micro-SOL, tx_amount in lamports
\* (expected * 0.001 SOL is `expected` lamports)
tolerance(expected_amount) == expected_amount
min_amount(expected_amount) == expected_amount * 1000 - tolerance(expected_amount)
max_amount(expected_amount) == expected_amount * 1000 + tolerance(expected_amount)

\* a band that is open at its upper end
AmountMatchesBelowMax(expected_amount, tx_amount) ==
    /\ min_amount(expected_amount) <= tx_amount
    /\ tx_amount < max_amount(expected_amount)

AmountMatches(expected_amount, tx_amount) ==
    /\ min_amount(expected_amount) <= tx_amount
    /\ tx_amount <= max_amount(expected_amount)

\* a matcher without the age test
NotTooOldAnyAge(created_at, tx_timestamp) == TRUE

\* recent_cutoff test: the transfer is not older than created_at - 30 min
NotTooOld(created_at, tx_timestamp) == ~ (tx_timestamp < created_at - RecentMinutes)

\* ---------------------------------------------------------- store reads

TxOf(sig) == CHOOSE t \in { chain[i] : i \in 1..Len(chain) } : t.signature = sig

\* SELECT signature FROM processed_sol_transactions WHERE signature = ?
IsProcessed(sig) ==
    \E i \in 1..Len(processed_sol_transactions) :
        processed_sol_transactions[i].signature = sig

RECURSIVE SortedSeq(_)
SortedSeq(S) ==
    IF S = {} THEN << >>
    ELSE LET m == CHOOSE x \in S : \A y \in S : x <= y
         IN  << m >> \o SortedSeq(S \ {m})

\* a sweep that ignores the age of the intent
IsStuckAnyAge(row) == row.status = "processing"

\* a sweep with the comparison of the age turned round
IsStuckYoung(row) ==
    /\ row.status = "processing"
    /\ row.created_at > now - StallMinutes

\* the stall sweep: UPDATE ... SET status='pending'
\*                  WHERE status='processing' AND created_at < two_min_ago
IsStuck(row) ==
    /\ row.status = "processing"
    /\ row.created_at < now - StallMinutes

Swept ==
    [ p \in Rows |->
        IF IsStuck(pending_sol_payments[p])
        THEN [ pending_sol_payments[p] EXCEPT !.status = "pending" ]
        ELSE pending_sol_payments[p] ]

\* an expiry test that allows a second validity period
IsExpiredLate(row) == now > row.expires_at + ExpiryMinutes

\* if datetime.now(timezone.utc) > expires_at
IsExpired(row) == now > row.expires_at

\* SELECT ... WHERE status = 'pending' (after the sweep)
PendingList == SortedSeq({ p \in Rows : Swept[p].status = "pending" })

\* check_wallet_transactions: signatures of the incoming transfers of a wallet
RECURSIVE SigsTo(_, _)
SigsTo(ch, wallet) ==
    IF ch = << >> THEN << >>
    ELSE IF Head(ch).to = wallet
         THEN << Head(ch).signature >> \o SigsTo(Tail(ch), wallet)
         ELSE SigsTo(Tail(ch), wallet)

\* --------------------------------------------------------- worker state

\* process_pending_sol_payments: asleep between two cycles (or not yet
\* started), and about to call check_pending_payments
SleepingWorker == [ pc |-> "sleep", queue |-> << >>, idx |-> 0,
                    transactions |-> << >>, k |-> 0, open_conns |-> {} ]
IdleWorker == [ SleepingWorker EXCEPT !.pc = "idle" ]

Cur(w) == worker[w].queue[worker[w].idx]

\* a close() that leaves the connection open
close_conn_leaks(open_conns, c) == open_conns

\* conn.close(): the connection, and any transaction open on it, is gone
close_conn(open_conns, c) == open_conns \ {c}

\* the worker has opened connection c with get_db_connection(), worked on it
\* and closed it: the connections it holds at its next await
Closed(wr, c) ==
    [ wr EXCEPT !.open_conns = close_conn(@ \cup {c}, c) ]

CurSig(w) == worker[w].transactions[worker[w].k]

\* `continue` / `break` of the per-payment loop: next payment or end of cycle
NextPayment(wr) ==
    IF wr.idx < Len(wr.queue)
    THEN [ wr EXCEPT !.pc = "visit", !.idx = @ + 1,
                     !.transactions = << >>, !.k = 0 ]
    ELSE SleepingWorker

Holder(w, wr) == IF wr.pc = "sleep" THEN NoWorker ELSE w

\* one pass of the transaction loop from index k: first transfer that is
\* recent enough, inside the tolerance band and not in
\* processed_sol_transactions; 0 when there is none
RECURSIVE FirstCandidate(_, _, _)
FirstCandidate(p, txs, j) ==
    IF j > Len(txs) THEN 0
    ELSE LET tx == TxOf(txs[j])
             row == pending_sol_payments[p]
         IN  IF /\ NotTooOld(row.created_at, tx.block_time)
                /\ AmountMatches(row.expected_sol_amount, tx.lamports)
                /\ ~ IsProcessed(txs[j])
             THEN j
             ELSE FirstCandidate(p, txs, j + 1)

\* ---------------------------------------------------------------- Init

InitMatcher ==
    /\ now = 0
    /\ events = 0
    /\ pending_sol_payments = << >>
    /\ processed_sol_transactions = << >>
    /\ chain = << >>
    /\ worker = [ w \in Workers |-> SleepingWorker ]
    /\ running = NoWorker
    /\ unreserved = [ p \in Pids |-> 0 ]
    /\ finalize_calls = [ p \in Pids |-> 0 ]

\* sol_price_cache = {'price': Decimal('0'), 'timestamp': 0}
NoRetry ==
    [ pc |-> "idle", attempt |-> 0, max_retries |-> 0, base_delay |-> 0,
      calls |-> 0, delays |-> << >> ]

InitOracle ==
    /\ sol_price_cache = [ price |-> 0, timestamp |-> 0 ]
    /\ retry = NoRetry
    /\ sig_response = << >>

NoForward ==
    [ pc |-> "idle", total_sol_amount |-> 0, forwardable |-> 0,
      amount_wallet1 |-> 0, amount_wallet2 |-> 0,
      results |-> [wallet1 |-> FALSE, wallet2 |-> FALSE] ]

InitForward ==
    /\ middleman_balance = 0
    /\ sent = << >>
    /\ forwarder = [ w \in Workers |-> NoForward ]
    /\ split_forward_lock = NoWorker
    /\ sol_forwarding_log = << >>

\* an empty shop: no product, no discount code in use, no finalization running
InitShop ==
    /\ products = << >>
    /\ product_media = {}
    /\ purchases = << >>
    /\ discount_codes = [ uses_count |-> 0, max_uses |-> 0 ]
    /\ users_basket = << >>
    /\ finalizer = << >>

Init ==
    /\ InitMatcher
    /\ returned = NoReturn
    /\ InitOracle
    /\ InitForward
    /\ InitShop

\* ------------------------------------------------------- environment

Tick(d) ==
    /\ running = NoWorker
    /\ events < MaxEvents
    /\ now' = now + d
    /\ events' = events + 1
    /\ UNCHANGED << pending_sol_payments, processed_sol_transactions, chain,
                    worker, running, unreserved, finalize_calls >>
    /\ UNCHANGED << returned, other_vars >>

\* a customer's transfer lands on chain
Transfer(to, lamports) ==
    /\ running = NoWorker
    /\ events < MaxEvents
    /\ events' = events + 1
    /\ chain' = << [ signature |-> Len(chain) + 1, to |-> to,
                     lamports |-> lamports, block_time |-> now ] >> \o chain
    /\ UNCHANGED << now, pending_sol_payments, processed_sol_transactions,
                    worker, running, unreserved, finalize_calls >>
    /\ UNCHANGED << returned, other_vars >>

\* ------------------------------------------------- create_sol_payment

\* the address shown to the customer (and scanned by the matcher) for a wallet
\* name: anything that is not wallet1 or wallet2 falls to the middleman
wallet_address(wallet_name) ==
    IF wallet_name = "wallet1" THEN "SOL_WALLET1_ADDRESS"
    ELSE IF wallet_name = "wallet2" THEN "SOL_WALLET2_ADDRESS"
    ELSE "SOL_MIDDLEMAN_ADDRESS"

create_sol_payment(basket_snapshot, total_eur, sol_price, random_offset) ==
    /\ running = NoWorker
    /\ events < MaxEvents
    /\ events' = events + 1
    /\ LET amount == sol_amount(total_eur, sol_price, random_offset)
           payment_id == Cardinality(Rows) + 1
           target_wallet == determine_payment_wallet(basket_snapshot)
       IN  IF amount < MIN_SOL_MICRO
           THEN /\ returned' = [ error |-> "amount_too_low" ]
                /\ UNCHANGED pending_sol_payments
           ELSE /\ pending_sol_payments' =
                     [ p \in Rows \cup {payment_id} |->
                         IF p = payment_id
                         THEN [ status |-> "pending",
                                expected_sol_amount |-> amount,
                                expected_wallet |-> target_wallet,
                                basket_snapshot |-> basket_snapshot,
                                created_at |-> now,
                                expires_at |-> now + ExpiryMinutes,
                                transaction_signature |-> NoSignature ]
                         ELSE pending_sol_payments[p] ]
                /\ returned' = [ payment_id |-> payment_id,
                                 sol_amount |-> amount,
                                 wallet_address |-> wallet_address(target_wallet),
                                 wallet_name |-> target_wallet,
                                 expires_at |-> now + ExpiryMinutes ]
    /\ UNCHANGED << now, processed_sol_transactions, chain, worker,
                    running, unreserved, finalize_calls >>
    /\ UNCHANGED other_vars

\* ------------------------------------------------- cancel_sol_payment

\* what can happen inside a call: nothing, a sqlite3.Error of the SELECT or
\* the UPDATE, an exception of _unreserve_basket_items
CancelOutcomes == {"ok", "db_error", "unreserve_error"}

cancel_sol_payment(payment_id, outcome) ==
    /\ running = NoWorker
    /\ events < MaxEvents
    /\ events' = events + 1
    /\ IF \/ outcome = "db_error"
          \/ payment_id \notin Rows
       THEN /\ returned' = [ value |-> FALSE ]
            /\ UNCHANGED << pending_sol_payments, unreserved >>
       ELSE IF pending_sol_payments[payment_id].status # "pending"
       THEN /\ returned' = [ value |-> FALSE ]
            /\ UNCHANGED << pending_sol_payments, unreserved >>
       ELSE /\ pending_sol_payments' =
                 [ pending_sol_payments EXCEPT ![payment_id].status = "cancelled" ]
            /\ IF outcome = "unreserve_error"
               THEN /\ returned' = [ value |-> FALSE ]
                    /\ UNCHANGED unreserved
               ELSE /\ returned' = [ value |-> TRUE ]
                    /\ unreserved' = [ unreserved EXCEPT ![payment_id] = @ + 1 ]
    /\ UNCHANGED << now, processed_sol_transactions, chain, worker,
                    running, finalize_calls >>
    /\ UNCHANGED other_vars

\* --------------------------------------------- check_pending_payments

\* process_pending_sol_payments: asyncio.sleep(SOL_CHECK_INTERVAL) is over (or
\* the task starts); the next cycle follows without an await
Wake(w) ==
    /\ running = NoWorker
    /\ worker[w].pc = "sleep"
    /\ worker' = [ worker EXCEPT ![w] = IdleWorker ]
    /\ running' = w
    /\ UNCHANGED << now, events, pending_sol_payments, processed_sol_transactions,
                    chain, unreserved, finalize_calls >>
    /\ UNCHANGED << returned, other_vars >>

\* start of a cycle: stall sweep, then load the pending list
SweepAndLoad(w) ==
    /\ running = w
    /\ worker[w].pc = "idle"
    /\ pending_sol_payments' = Swept
    /\ LET wr == IF PendingList = << >> THEN SleepingWorker
                 ELSE Closed([ pc |-> "visit", queue |-> PendingList, idx |-> 1,
                               transactions |-> << >>, k |-> 0,
                               open_conns |-> worker[w].open_conns ], "conn")
       IN  /\ worker' = [ worker EXCEPT ![w] = wr ]
           /\ running' = Holder(w, wr)
    /\ UNCHANGED << now, events, processed_sol_transactions, chain,
                    unreserved, finalize_calls >>
    /\ UNCHANGED << returned, other_vars >>

\* UPDATE ... SET status='expired'
\* WHERE payment_id=? AND status IN ('pending','processing','failed')
MarkExpired(p) ==
    IF pending_sol_payments[p].status \in {"pending", "processing", "failed"}
    THEN [ pending_sol_payments EXCEPT ![p].status = "expired" ]
    ELSE pending_sol_payments

\* top of the per-payment loop, expired branch
VisitExpired(w) ==
    /\ running = w
    /\ worker[w].pc = "visit"
    /\ IsExpired(pending_sol_payments[Cur(w)])
    /\ pending_sol_payments' = MarkExpired(Cur(w))
    /\ worker' = [ worker EXCEPT
                     ![w] = Closed([ @ EXCEPT !.pc = "unreserve" ], "expire_conn") ]
    /\ running' = NoWorker
    /\ UNCHANGED << now, events, processed_sol_transactions, chain,
                    unreserved, finalize_calls >>
    /\ UNCHANGED << returned, other_vars >>

\* _unreserve_basket_items returns; `continue`
Unreserve(w) ==
    /\ running = NoWorker
    /\ worker[w].pc = "unreserve"
    /\ unreserved' = [ unreserved EXCEPT ![Cur(w)] = @ + 1 ]
    /\ worker' = [ worker EXCEPT ![w] = NextPayment(@) ]
    /\ running' = Holder(w, NextPayment(worker[w]))
    /\ UNCHANGED << now, events, pending_sol_payments, processed_sol_transactions,
                    chain, finalize_calls >>
    /\ UNCHANGED << returned, other_vars >>

\* top of the per-payment loop, not expired: status check, then the scan starts
VisitLive(w) ==
    /\ running = w
    /\ worker[w].pc = "visit"
    /\ ~ IsExpired(pending_sol_payments[Cur(w)])
    /\ LET wr == IF pending_sol_payments[Cur(w)].status \in {"processing", "confirmed"}
                 THEN NextPayment(Closed(worker[w], "status_conn"))
                 ELSE Closed([ worker[w] EXCEPT !.pc = "scan" ], "status_conn")
       IN  /\ worker' = [ worker EXCEPT ![w] = wr ]
           /\ running' = IF wr.pc = "visit" THEN w ELSE NoWorker
    /\ UNCHANGED << now, events, pending_sol_payments, processed_sol_transactions,
                    chain, unreserved, finalize_calls >>
    /\ UNCHANGED << returned, other_vars >>

\* check_wallet_transactions returns (an RPC failure returns the empty list)
Scan(w, rpc_ok) ==
    /\ running = NoWorker
    /\ worker[w].pc = "scan"
    /\ LET txs == IF rpc_ok
                  THEN SigsTo(chain, pending_sol_payments[Cur(w)].expected_wallet)
                  ELSE << >>
           wr  == IF txs = << >> THEN NextPayment(worker[w])
                  ELSE [ worker[w] EXCEPT !.pc = "match",
                                          !.transactions = txs, !.k = 1 ]
       IN  /\ worker' = [ worker EXCEPT ![w] = wr ]
           /\ running' = Holder(w, wr)
    /\ UNCHANGED << now, events, pending_sol_payments, processed_sol_transactions,
                    chain, unreserved, finalize_calls >>
    /\ UNCHANGED << returned, other_vars >>

\* a lock transaction whose update is not guarded by the status
LockAppliesAlways(p) == TRUE

\* the guarded transition of the lock transaction:
\* UPDATE ... SET status='processing' WHERE payment_id=? AND status='pending'
LockApplies(p) == pending_sol_payments[p].status = "pending"

\* the transaction loop up to the lock: skip transfers that are too old, out
\* of band or already processed; for a candidate try the lock; a lock that
\* does not apply moves on to the next transfer
Lock(w) ==
    /\ running = w
    /\ worker[w].pc = "match"
    /\ LET p == Cur(w)
           j == FirstCandidate(p, worker[w].transactions, worker[w].k)
       IN  IF j # 0 /\ LockApplies(p)
           THEN /\ pending_sol_payments' =
                     [ pending_sol_payments EXCEPT ![p].status = "processing" ]
                /\ IF pending_sol_payments[p].expected_wallet = "middleman"
                   THEN /\ worker' = [ worker EXCEPT ![w] =
                                          Closed([ @ EXCEPT !.pc = "forward",
                                                            !.k = j ],
                                                 "lock_conn") ]
                        /\ running' = NoWorker
                   ELSE /\ worker' = [ worker EXCEPT ![w] =
                                          Closed([ @ EXCEPT !.pc = "confirm",
                                                            !.k = j ],
                                                 "lock_conn") ]
                        /\ running' = w
           ELSE /\ worker' = [ worker EXCEPT ![w] = NextPayment(@) ]
                /\ running' = Holder(w, NextPayment(worker[w]))
                /\ UNCHANGED pending_sol_payments
    /\ UNCHANGED << now, events, processed_sol_transactions, chain,
                    unreserved, finalize_calls >>
    /\ UNCHANGED << returned, other_vars >>

\* a forward that counts as done when the majority (wallet2) leg went through
forward_success_majority(forward_results) == forward_results.wallet2

\* forward_split_payment returns
forward_success(forward_results) ==
    forward_results.wallet1 /\ forward_results.wallet2

\* UPDATE ... SET status='failed' WHERE payment_id=?
MarkFailed(p) == [ pending_sol_payments EXCEPT ![p].status = "failed" ]

\* the transfers a forward with these results has sent for a source transfer,
\* the 80% one first
legs_sent(forward_results, w, source_signature) ==
    (IF forward_results.wallet2
     THEN << [to |-> "wallet2", by |-> w, source |-> source_signature] >>
     ELSE << >>)
    \o (IF forward_results.wallet1
        THEN << [to |-> "wallet1", by |-> w, source |-> source_signature] >>
        ELSE << >>)

Forward(w, forward_results) ==
    /\ running = NoWorker
    /\ worker[w].pc = "forward"
    /\ sent' = sent \o legs_sent(forward_results, w, CurSig(w))
    /\ IF forward_success(forward_results)
       THEN /\ worker' = [ worker EXCEPT ![w].pc = "confirm" ]
            /\ UNCHANGED pending_sol_payments
       ELSE /\ pending_sol_payments' = MarkFailed(Cur(w))
            /\ worker' = [ worker EXCEPT ![w].pc = "match", ![w].k = @ + 1 ]
    /\ running' = w
    /\ UNCHANGED << now, events, processed_sol_transactions, chain,
                    unreserved, finalize_calls >>
    /\ UNCHANGED << middleman_balance, forwarder, split_forward_lock,
                    sol_forwarding_log >>
    /\ UNCHANGED << returned, oracle_vars, shop_vars >>

\* a confirmation transaction without the re-check
ConfirmRecheckMissing(sig) == TRUE

\* the confirmation transaction: re-check, insert, update, commit
ConfirmRecheck(sig) == ~ IsProcessed(sig)

Confirm(w) ==
    /\ running = w
    /\ worker[w].pc = "confirm"
    /\ IF ConfirmRecheck(CurSig(w))
       THEN /\ processed_sol_transactions' =
                 Append(processed_sol_transactions,
                        [ signature |-> CurSig(w), payment_id |-> Cur(w) ])
            /\ pending_sol_payments' =
                 [ pending_sol_payments EXCEPT
                     ![Cur(w)].status = "confirmed",
                     ![Cur(w)].transaction_signature = CurSig(w) ]
            /\ worker' = [ worker EXCEPT
                             ![w] = Closed([ @ EXCEPT !.pc = "finalize" ],
                                           "confirm_conn") ]
            /\ running' = NoWorker
       ELSE /\ worker' = [ worker EXCEPT ![w].pc = "match", ![w].k = @ + 1 ]
            /\ running' = w
            /\ UNCHANGED << processed_sol_transactions, pending_sol_payments >>
    /\ UNCHANGED << now, events, chain, unreserved, finalize_calls >>
    /\ UNCHANGED << returned, other_vars >>

\* finalize_sol_purchase returns; `break`
Finalize(w, success) ==
    /\ running = NoWorker
    /\ worker[w].pc = "finalize"
    /\ finalize_calls' = [ finalize_calls EXCEPT ![Cur(w)] = @ + 1 ]
    /\ worker' = [ worker EXCEPT ![w] = NextPayment(@) ]
    /\ running' = Holder(w, NextPayment(worker[w]))
    /\ UNCHANGED << now, events, pending_sol_payments, processed_sol_transactions,
                    chain, unreserved >>
    /\ UNCHANGED << returned, other_vars >>

\* finalize_sol_purchase raises (its import of payment, _get_lang_data, the
\* admin lookup): nothing in the per-payment loop catches it, the handler
\* around the whole of check_pending_payments logs it and the cycle is over
FinalizeRaises(w) ==
    /\ running = NoWorker
    /\ worker[w].pc = "finalize"
    /\ finalize_calls' = [ finalize_calls EXCEPT ![Cur(w)] = @ + 1 ]
    /\ worker' = [ worker EXCEPT ![w] = SleepingWorker ]
    /\ UNCHANGED << now, events, pending_sol_payments, processed_sol_transactions,
                    chain, running, unreserved >>
    /\ UNCHANGED << returned, other_vars >>

\* ---------------------------------------------------------------- Next

Next ==
    \/ \E d \in TickSteps : Tick(d)
    \/ \E to \in TransferWallets, a \in TransferLamports : Transfer(to, a)
    \/ \E b \in Baskets, e \in EurCents, pr \in PriceCents, o \in Offsets :
           create_sol_payment(b, e, pr, o)
    \/ \E p \in Pids, outcome \in CancelOutcomes : cancel_sol_payment(p, outcome)
    \/ \E w \in Workers : Wake(w)
    \/ \E w \in Workers : SweepAndLoad(w)
    \/ \E w \in Workers : VisitExpired(w)
    \/ \E w \in Workers : Unreserve(w)
    \/ \E w \in Workers : VisitLive(w)
    \/ \E w \in Workers, ok \in BOOLEAN : Scan(w, ok)
    \/ \E w \in Workers : Lock(w)
    \/ \E w \in Workers, r \in ForwardResults : Forward(w, r)
    \/ \E w \in Workers : Confirm(w)
    \/ \E w \in Workers, ok \in BOOLEAN : Finalize(w, ok)
    \/ \E w \in Workers : FinalizeRaises(w)

Spec == Init /\ [][Next]_vars

TypeOK ==
    /\ running \in Workers \cup {NoWorker}
    /\ Rows \subseteq Pids
    /\ \A p \in Rows : pending_sol_payments[p].status \in
          {"pending", "processing", "confirmed", "failed", "expired", "cancelled"}

\* ------------------------------------------- the matching decision alone

\* one pending intent and one transfer to its wallet: expected amounts
\* (micro-SOL), creation times and block times (minutes), and transfer amounts
\* (lamports) on, next to and away from the edges of the band
MatchExpected == {10000, 100000, 101001}
MatchCreated == {0, 31, 32}
MatchBlockTimes == {0, 1, 2}
MatchWallets == {"wallet1", "middleman"}
MatchLamports(expected) ==
    { 1000 * expected + d :
        d \in { 0, expected, 0 - expected, expected + 1, 0 - expected - 1,
                expected + (expected \div 2), 0 - expected - (expected \div 2) } }

MatchInit ==
    \E expected \in MatchExpected, created \in MatchCreated,
       block_time \in MatchBlockTimes, wallet \in MatchWallets :
      \E lamports \in MatchLamports(expected) :
        /\ now = created
        /\ events = 0
        /\ pending_sol_payments =
             << [ status |-> "pending",
                  expected_sol_amount |-> expected,
                  expected_wallet |-> wallet,
                  basket_snapshot |->
                      IF wallet = "middleman" THEN << "split" >> ELSE << wallet >>,
                  created_at |-> created,
                  expires_at |-> created + ExpiryMinutes,
                  transaction_signature |-> NoSignature ] >>
        /\ processed_sol_transactions = << >>
        /\ chain = << [ signature |-> 1, to |-> wallet,
                        lamports |-> lamports, block_time |-> block_time ] >>
        /\ worker = [ w \in Workers |-> SleepingWorker ]
        /\ running = NoWorker
        /\ unreserved = [ p \in Pids |-> 0 ]
        /\ finalize_calls = [ p \in Pids |-> 0 ]
        /\ returned = NoReturn
        /\ InitOracle
        /\ InitForward
        /\ InitShop

\* the matcher's cycles over that intent
MatchNext ==
    \/ \E w \in Workers : Wake(w)
    \/ \E w \in Workers : SweepAndLoad(w)
    \/ \E w \in Workers : VisitLive(w)
    \/ \E w \in Workers, ok \in BOOLEAN : Scan(w, ok)
    \/ \E w \in Workers : Lock(w)
    \/ \E w \in Workers, r \in ForwardResults : Forward(w, r)
    \/ \E w \in Workers : Confirm(w)
    \/ \E w \in Workers, ok \in BOOLEAN : Finalize(w, ok)
    \/ \E w \in Workers : FinalizeRaises(w)

MatchSpec == MatchInit /\ [][MatchNext]_vars

\* --------------------------------- the matcher on an intent of some age

\* one pending intent that is three minutes old, with one transfer of its
\* amount already on chain; the customer (or anybody) may send more
\* transfers to the wallets while the workers run their cycles
RecoveryWallets == {"wallet1", "middleman"}

RecoveryInit ==
    \E wallet \in RecoveryWallets :
        /\ now = StallMinutes + 1
        /\ events = 0
        /\ pending_sol_payments =
             << [ status |-> "pending",
                  expected_sol_amount |-> 101001,
                  expected_wallet |-> wallet,
                  basket_snapshot |->
                      IF wallet = "middleman" THEN << "split" >> ELSE << wallet >>,
                  created_at |-> 0,
                  expires_at |-> ExpiryMinutes,
                  transaction_signature |-> NoSignature ] >>
        /\ processed_sol_transactions = << >>
        /\ chain = << [ signature |-> 1, to |-> wallet,
                        lamports |-> 101001000, block_time |-> 1 ] >>
        /\ worker = [ w \in Workers |-> SleepingWorker ]
        /\ running = NoWorker
        /\ unreserved = [ p \in Pids |-> 0 ]
        /\ finalize_calls = [ p \in Pids |-> 0 ]
        /\ returned = NoReturn
        /\ InitOracle
        /\ InitForward
        /\ InitShop

RecoveryNext ==
    \/ \E to \in TransferWallets, a \in TransferLamports : Transfer(to, a)
    \/ MatchNext

RecoverySpec == RecoveryInit /\ [][RecoveryNext]_vars

\* ------------------------------------- the poll loop with the clock running

\* two pending intents of the same amount on the same wallet and one transfer
\* of that amount on chain: both intents want the transfer, only one gets it
LiveWallets == {"wallet1", "middleman"}

LiveInit ==
    \E wallet \in LiveWallets :
        /\ now = 0
        /\ events = 0
        /\ pending_sol_payments =
             [ p \in {1, 2} |->
                 [ status |-> "pending",
                   expected_sol_amount |-> 101001,
                   expected_wallet |-> wallet,
                   basket_snapshot |->
                       IF wallet = "middleman" THEN << "split" >> ELSE << wallet >>,
                   created_at |-> 0,
                   expires_at |-> ExpiryMinutes,
                   transaction_signature |-> NoSignature ] ]
        /\ processed_sol_transactions = << >>
        /\ chain = << [ signature |-> 1, to |-> wallet,
                        lamports |-> 101001000, block_time |-> 0 ] >>
        /\ worker = [ w \in Workers |-> SleepingWorker ]
        /\ running = NoWorker
        /\ unreserved = [ p \in Pids |-> 0 ]
        /\ finalize_calls = [ p \in Pids |-> 0 ]
        /\ returned = NoReturn
        /\ InitOracle
        /\ InitForward
        /\ InitShop

\* the clock is read every few minutes
LiveTickSteps == {StallMinutes + 1}

\* the clock advances; once every intent is past its expires_at the matcher
\* tells no later time from this one
ClockAdvances(d) ==
    /\ running = NoWorker
    /\ \E p \in Rows : ~ IsExpired(pending_sol_payments[p])
    /\ now' = now + d
    /\ UNCHANGED << events, pending_sol_payments, processed_sol_transactions,
                    chain, worker, running, unreserved, finalize_calls >>
    /\ UNCHANGED << returned, other_vars >>

\* the steps of one task of process_pending_sol_payments: the sleep ends, and
\* every statement and every awaited call of check_pending_payments returns
WorkerStep(w) ==
    \/ Wake(w)
    \/ SweepAndLoad(w)
    \/ VisitExpired(w)
    \/ Unreserve(w)
    \/ VisitLive(w)
    \/ \E ok \in BOOLEAN : Scan(w, ok)
    \/ Lock(w)
    \/ \E r \in ForwardResults : Forward(w, r)
    \/ Confirm(w)
    \/ \E ok \in BOOLEAN : Finalize(w, ok)
    \/ FinalizeRaises(w)

LiveNext ==
    \/ \E d \in LiveTickSteps : ClockAdvances(d)
    \/ \E w \in Workers : WorkerStep(w)

\* asyncio runs every task that is ready: a task whose sleep or awaited call
\* is over gets the event loop when the task holding it awaits; time passes
LiveFairness ==
    /\ SF_vars(\E d \in LiveTickSteps : ClockAdvances(d))
    /\ \A w \in Workers : SF_vars(WorkerStep(w))

LiveSpec == LiveInit /\ [][LiveNext]_vars /\ LiveFairness

\* ------------------------------------------- the creation of intents alone

\* baskets of every rule of determine_payment_wallet, totals (EUR cents) and
\* oracle prices (EUR cents per SOL) below and above the minimum, and both
\* ends of random.randint(1, 9999)
CreateBaskets ==
    { << >>, <<"wallet1">>, <<"wallet2">>, <<NoTag>>, <<"split">>,
      <<"wallet2", "wallet2">>, <<"wallet1", "wallet2">>,
      <<"wallet2", "split">>, <<NoTag, "wallet2">>, <<NoTag, "wallet1">> }
CreateEurCents == {50, 1500}
CreatePriceCents == {100000}
CreateOffsets == {1, 9999}

CreateNext ==
    \E b \in CreateBaskets, e \in CreateEurCents,
       pr \in CreatePriceCents, o \in CreateOffsets :
        create_sol_payment(b, e, pr, o)

CreateSpec == Init /\ [][CreateNext]_vars

\* ------------------------------------------------ forward_split_payment

\* _forward_split_payment_locked: balances and the source amount are lamports,
\* the two shares are micro-SOL (quantize to 0.000001)
TX_FEE_ESTIMATE == 10000
TOTAL_FEES == TX_FEE_ESTIMATE * 2
MIN_RESERVE_BALANCE == 2000000
MIN_FORWARDABLE == 10
SAFETY_RENT == 1000000
\* what the network takes from the sender for one transfer
NetworkFee == 5000

\* a share that is rounded up
split_share_up(forwardable, percent) ==
    CeilDiv(forwardable * percent, 100000)

\* (forwardable * Decimal('0.20')).quantize(Decimal('0.000001'), ROUND_DOWN)
split_share(forwardable, percent) ==
    (forwardable * percent) \div 100000

max_forwardable(current_balance) ==
    current_balance - MIN_RESERVE_BALANCE - TOTAL_FEES

\* source amounts the matcher passes on (0.1% below the smallest intent, and
\* two amounts whose shares are not whole micro-SOL), balances of the
\* middleman wallet at the start (at and just above reserve plus fees, one
\* that holds a customer's 0.015151 SOL and nothing else, one that a forward
\* of 0.015151 SOL leaves at 0.00206 SOL, and a full one)
ForwardTotals == {9990000, 15151000, 25149999}
ForwardBalances == {2020000, 2030000, 2060000, 2070000, 15151000, 17220000,
                    60000000}

\* the caller enters forward_split_payment and waits for the lock
ForwardCall(w, total) ==
    /\ forwarder[w].pc = "idle"
    /\ events < MaxEvents
    /\ events' = events + 1
    /\ forwarder' = [forwarder EXCEPT ![w] =
                        [NoForward EXCEPT !.pc = "lock",
                                          !.total_sol_amount = total]]
    /\ UNCHANGED << now, pending_sol_payments, processed_sol_transactions,
                    chain, worker, running, unreserved, finalize_calls >>
    /\ UNCHANGED << middleman_balance, sent, split_forward_lock,
                    sol_forwarding_log >>
    /\ UNCHANGED << returned, oracle_vars, shop_vars >>

\* a return of _forward_split_payment_locked: the lock is released
ForwardReturns(w, locals) ==
    /\ forwarder' = [forwarder EXCEPT ![w] = [locals EXCEPT !.pc = "idle"]]
    /\ split_forward_lock' = NoWorker
    /\ returned' = locals.results

\* a lock that never makes a caller wait
can_acquire_always(lock) == TRUE

\* async with _split_forward_lock: entered when nobody holds the lock
can_acquire(lock) == lock = NoWorker

\* a forward that goes on to the transfers whatever the balance is
ForwardBalanceUnchecked(w, balance_read) ==
    /\ forwarder[w].pc = "lock"
    /\ can_acquire(split_forward_lock)
    /\ LET f == forwarder[w]
           total == f.total_sol_amount
           forwardable ==
               IF balance_read
               THEN IF max_forwardable(middleman_balance) >= total
                    THEN total ELSE max_forwardable(middleman_balance)
               ELSE total - (TOTAL_FEES + SAFETY_RENT)
           shares == [f EXCEPT !.forwardable = forwardable,
                               !.amount_wallet1 = split_share(forwardable, 20),
                               !.amount_wallet2 = split_share(forwardable, 80)]
       IN  /\ forwarder' = [forwarder EXCEPT ![w] =
                               [shares EXCEPT !.pc = "send2"]]
           /\ split_forward_lock' = w
           /\ UNCHANGED returned
    /\ UNCHANGED << middleman_balance, sent, sol_forwarding_log >>
    /\ UNCHANGED << matcher_vars, oracle_vars, shop_vars >>

\* lock taken, balance read (or the read raises), shares computed, checks
ForwardBalance(w, balance_read) ==
    /\ forwarder[w].pc = "lock"
    /\ can_acquire(split_forward_lock)
    /\ LET f == forwarder[w]
           total == f.total_sol_amount
           forwardable ==
               IF balance_read
               THEN IF max_forwardable(middleman_balance) >= total
                    THEN total ELSE max_forwardable(middleman_balance)
               ELSE total - (TOTAL_FEES + SAFETY_RENT)
           shares == [f EXCEPT !.forwardable = forwardable,
                               !.amount_wallet1 = split_share(forwardable, 20),
                               !.amount_wallet2 = split_share(forwardable, 80)]
           refused ==
               IF balance_read
               THEN max_forwardable(middleman_balance) <= 0
               ELSE forwardable <= 0
           blocked ==
               IF balance_read
               THEN \/ middleman_balance - forwardable - TOTAL_FEES
                         < MIN_RESERVE_BALANCE
                    \/ shares.amount_wallet1 < MIN_FORWARDABLE
                    \/ shares.amount_wallet2 < MIN_FORWARDABLE
               ELSE FALSE
       IN  IF refused
           THEN ForwardReturns(w, f)
           ELSE IF blocked
           THEN ForwardReturns(w, shares)
           ELSE /\ forwarder' = [forwarder EXCEPT ![w] =
                                    [shares EXCEPT !.pc = "send2"]]
                /\ split_forward_lock' = w
                /\ UNCHANGED returned
    /\ UNCHANGED << middleman_balance, sent, sol_forwarding_log >>
    /\ UNCHANGED << matcher_vars, oracle_vars, shop_vars >>

\* a first transfer whose failure does not end the forward
ForwardWallet2Continues(w, sig2) ==
    /\ forwarder[w].pc = "send2"
    /\ LET f == forwarder[w]
           lamports == f.amount_wallet2 * 1000
       IN  IF sig2
           THEN /\ middleman_balance >= lamports + NetworkFee
                /\ middleman_balance' = middleman_balance - lamports - NetworkFee
                /\ sent' = Append(sent, [to |-> "wallet2",
                                         amount |-> f.amount_wallet2, by |-> w])
                /\ forwarder' = [forwarder EXCEPT
                                    ![w].pc = "recheck",
                                    ![w].results.wallet2 = TRUE]
           ELSE /\ forwarder' = [forwarder EXCEPT ![w].pc = "recheck"]
                /\ UNCHANGED << middleman_balance, sent >>
    /\ UNCHANGED << split_forward_lock, returned, sol_forwarding_log >>
    /\ UNCHANGED << matcher_vars, oracle_vars, shop_vars >>

\* send_sol_transaction to wallet2 (80%) has returned
ForwardWallet2(w, sig2) ==
    /\ forwarder[w].pc = "send2"
    /\ LET f == forwarder[w]
           lamports == f.amount_wallet2 * 1000
       IN  IF sig2
           THEN /\ middleman_balance >= lamports + NetworkFee
                /\ middleman_balance' = middleman_balance - lamports - NetworkFee
                /\ sent' = Append(sent, [to |-> "wallet2",
                                         amount |-> f.amount_wallet2, by |-> w])
                /\ forwarder' = [forwarder EXCEPT
                                    ![w].pc = "recheck",
                                    ![w].results.wallet2 = TRUE]
                /\ UNCHANGED << split_forward_lock, returned >>
           ELSE /\ ForwardReturns(w, f)
                /\ UNCHANGED << middleman_balance, sent >>
    /\ UNCHANGED sol_forwarding_log
    /\ UNCHANGED << matcher_vars, oracle_vars, shop_vars >>

\* after the pause: balance read again (or the read raises), wallet1 started
ForwardRecheck(w, balance_read) ==
    /\ forwarder[w].pc = "recheck"
    /\ LET f == forwarder[w]
           required_for_second ==
               f.amount_wallet1 * 1000 + TX_FEE_ESTIMATE + MIN_RESERVE_BALANCE
       IN  IF balance_read /\ middleman_balance < required_for_second
           THEN ForwardReturns(w, f)
           ELSE /\ forwarder' = [forwarder EXCEPT ![w].pc = "send1"]
                /\ UNCHANGED << split_forward_lock, returned >>
    /\ UNCHANGED << middleman_balance, sent, sol_forwarding_log >>
    /\ UNCHANGED << matcher_vars, oracle_vars, shop_vars >>

\* send_sol_transaction to wallet1 (20%) has returned; the forward is logged
ForwardWallet1(w, sig1) ==
    /\ forwarder[w].pc = "send1"
    /\ LET f == forwarder[w]
           lamports == f.amount_wallet1 * 1000
           results == [f.results EXCEPT !.wallet1 = sig1]
       IN  /\ IF sig1
              THEN /\ middleman_balance >= lamports + NetworkFee
                   /\ middleman_balance' =
                         middleman_balance - lamports - NetworkFee
                   /\ sent' = Append(sent, [to |-> "wallet1",
                                            amount |-> f.amount_wallet1,
                                            by |-> w])
              ELSE UNCHANGED << middleman_balance, sent >>
           /\ sol_forwarding_log' =
                 Append(sol_forwarding_log,
                        [ wallet1_amount |-> f.amount_wallet1,
                          wallet2_amount |-> f.amount_wallet2,
                          success |-> results.wallet1 /\ results.wallet2 ])
           /\ ForwardReturns(w, [f EXCEPT !.results = results])
    /\ UNCHANGED << matcher_vars, oracle_vars, shop_vars >>

ForwardInit ==
    /\ InitMatcher
    /\ returned = NoReturn
    /\ InitOracle
    /\ InitShop
    /\ middleman_balance \in ForwardBalances
    /\ sent = << >>
    /\ forwarder = [ w \in Workers |-> NoForward ]
    /\ split_forward_lock = NoWorker
    /\ sol_forwarding_log = << >>

ForwardNext ==
    \/ \E w \in Workers, total \in ForwardTotals : ForwardCall(w, total)
    \/ \E w \in Workers, ok \in BOOLEAN : ForwardBalance(w, ok)
    \/ \E w \in Workers, ok \in BOOLEAN : ForwardWallet2(w, ok)
    \/ \E w \in Workers, ok \in BOOLEAN : ForwardRecheck(w, ok)
    \/ \E w \in Workers, ok \in BOOLEAN : ForwardWallet1(w, ok)

ForwardSpec == ForwardInit /\ [][ForwardNext]_vars

\* ---------------------------------------------------- get_sol_price_eur

\* prices are EUR cents per SOL, times are minutes
PRICE_CACHE_DURATION == 90
DEFAULT_PRICE == 13500

\* what the request to the price service can end in; a success carries the
\* quoted price, which is positive
UpstreamOutcomes == {"success", "http_429", "http_error", "timeout", "malformed"}
FreshPrices == {15000, 16000, 100000}
\* steps of the clock next to the cache duration
OracleTicks == {1, 30, 89, 90}

cache_valid(cache, t) ==
    /\ t - cache.timestamp < PRICE_CACHE_DURATION
    /\ cache.price > 0

\* a failure that never uses the cached price
price_after_failure_default(cache, t) ==
    [ price |-> DEFAULT_PRICE,
      cache |-> [price |-> DEFAULT_PRICE, timestamp |-> t] ]

\* both except branches: the cached price if there is one, else the default,
\* which is cached
price_after_failure(cache, t) ==
    IF cache.price > 0
    THEN [ price |-> cache.price, cache |-> cache ]
    ELSE [ price |-> DEFAULT_PRICE,
           cache |-> [price |-> DEFAULT_PRICE, timestamp |-> t] ]

\* a call that finds the cache valid returns at once; any other call sends
\* one request to the price service, which is an event
get_sol_price_eur(outcome, fresh) ==
    /\ running = NoWorker
    /\ IF cache_valid(sol_price_cache, now)
       THEN /\ returned' = [ price |-> sol_price_cache.price ]
            /\ UNCHANGED << sol_price_cache, events >>
       ELSE /\ events < MaxEvents
            /\ events' = events + 1
            /\ IF outcome = "success"
               THEN /\ sol_price_cache' = [ price |-> fresh, timestamp |-> now ]
                    /\ returned' = [ price |-> fresh ]
               ELSE /\ sol_price_cache' =
                          price_after_failure(sol_price_cache, now).cache
                    /\ returned' =
                          [ price |-> price_after_failure(sol_price_cache, now).price ]
    /\ UNCHANGED << now, pending_sol_payments, processed_sol_transactions,
                    chain, worker, running, unreserved, finalize_calls >>
    /\ UNCHANGED << rpc_vars, forward_vars, shop_vars >>

OracleNext ==
    \/ \E d \in OracleTicks : Tick(d)
    \/ \E outcome \in UpstreamOutcomes, fresh \in FreshPrices :
          get_sol_price_eur(outcome, fresh)

OracleSpec == Init /\ [][OracleNext]_vars

\* ------------------------------------------------------- retry_rpc_call

\* the keyword arguments (the defaults are 3 and 1.0 s), what one call of the
\* wrapped function does, and what it returns when it succeeds
RetryMax == {1, 3}
RetryBaseDelays == {1, 2}
RpcOutcomes == {"ok", "429", "error"}
RpcResults == {"r1", "r2"}

\* a wrapper that tries again after every error
retries_any_error(outcome, attempt, max_retries) ==
    outcome # "ok" /\ attempt < max_retries - 1

\* if '429' in str(e) and attempt < max_retries - 1
retries(outcome, attempt, max_retries) ==
    outcome = "429" /\ attempt < max_retries - 1

\* delay = base_delay * (2 ** attempt)
backoff(base_delay, attempt) == base_delay * 2 ^ attempt

\* retry_rpc_call(func, max_retries, base_delay) is entered
RetryCall(max_retries, base_delay) ==
    /\ retry.pc \in {"idle", "done"}
    /\ events < MaxEvents
    /\ events' = events + 1
    /\ retry' = [ NoRetry EXCEPT !.pc = "call", !.max_retries = max_retries,
                                 !.base_delay = base_delay ]
    /\ UNCHANGED << now, pending_sol_payments, processed_sol_transactions,
                    chain, worker, running, unreserved, finalize_calls >>
    /\ UNCHANGED << returned, sol_price_cache, sig_response, forward_vars,
                    shop_vars >>

\* await func() has returned or raised
RetryAttempt(outcome, result) ==
    /\ retry.pc = "call"
    /\ LET called == [ retry EXCEPT !.calls = @ + 1 ]
       IN  IF outcome = "ok"
           THEN /\ retry' = [ called EXCEPT !.pc = "done" ]
                /\ returned' = [ value |-> result ]
           ELSE IF retries(outcome, retry.attempt, retry.max_retries)
           THEN /\ retry' = [ called EXCEPT
                                !.pc = "sleep",
                                !.delays = Append(@, backoff(retry.base_delay,
                                                             retry.attempt)) ]
                /\ UNCHANGED returned
           ELSE /\ retry' = [ called EXCEPT !.pc = "done" ]
                /\ returned' = [ raised |-> outcome ]
    /\ UNCHANGED << matcher_vars, sol_price_cache, sig_response, forward_vars,
                    shop_vars >>

\* await asyncio.sleep(delay) is over: next round of the loop
RetrySleep ==
    /\ retry.pc = "sleep"
    /\ retry' = [ retry EXCEPT !.pc = "call", !.attempt = @ + 1 ]
    /\ UNCHANGED << matcher_vars, returned, sol_price_cache, sig_response,
                    forward_vars, shop_vars >>

RetryNext ==
    \/ \E max_retries \in RetryMax, base_delay \in RetryBaseDelays :
          RetryCall(max_retries, base_delay)
    \/ \E outcome \in RpcOutcomes, result \in RpcResults :
          RetryAttempt(outcome, result)
    \/ RetrySleep

RetrySpec == Init /\ [][RetryNext]_vars

\* ---------------------------------------------- check_wallet_transactions

\* what the RPC node says about one signature: whether the transaction
\* failed on chain, how get_transaction ends (data, an exception that
\* retry_rpc_call re-raises, an empty response), and in the data the account
\* keys with the balances (lamports) before and after, one per key; a
\* balance list may be missing or shorter than the key list
ScanWallets == {"W", "X"}
ScanKeys == { <<"W", "X">>, <<"X", "W">>, <<"X", "Y">> }
ScanPre == { <<5, 5>>, <<5>>, << >> }
ScanPost == { <<7, 5>>, <<5, 7>>, <<5, 5>>, <<3, 7>> }

TxData ==
    [ account_keys : ScanKeys, pre_balances : ScanPre, post_balances : ScanPost ]

NoTxData ==
    [ account_keys |-> << >>, pre_balances |-> << >>, post_balances |-> << >> ]

SigInfos(signature) ==
    { [ signature |-> signature, err |-> TRUE, fetch |-> "ok", tx |-> d ] :
        d \in { [ account_keys |-> <<"W", "X">>, pre_balances |-> <<5, 5>>,
                  post_balances |-> <<7, 5>> ] } }
    \cup { [ signature |-> signature, err |-> FALSE, fetch |-> "ok", tx |-> d ] :
             d \in TxData }
    \cup { [ signature |-> signature, err |-> FALSE, fetch |-> f, tx |-> NoTxData ] :
             f \in {"raises", "empty"} }

SigResponses ==
    { << >> } \cup { << a >> : a \in SigInfos(1) }
    \cup { << a, b >> : a \in SigInfos(1), b \in SigInfos(2) }

\* the position of the wallet among the account keys, 0 for None
our_index(account_keys, wallet) ==
    IF \E idx \in 1..Len(account_keys) : account_keys[idx] = wallet
    THEN CHOOSE idx \in 1..Len(account_keys) :
            /\ account_keys[idx] = wallet
            /\ \A other \in 1..(idx - 1) : account_keys[other] # wallet
    ELSE 0

\* a scan that also reports a balance that did not change
is_incoming_or_equal(pre_balance, post_balance) == post_balance >= pre_balance

\* if post_balance > pre_balance
is_incoming(pre_balance, post_balance) == post_balance > pre_balance

\* one round of the loop over the signatures: what it appends
inspect(sig_info, wallet) ==
    IF sig_info.err THEN << >>
    ELSE IF sig_info.fetch # "ok" THEN << >>
    ELSE LET tx == sig_info.tx
             idx == our_index(tx.account_keys, wallet)
         IN  IF idx = 0 THEN << >>
             ELSE IF tx.pre_balances = << >> \/ tx.post_balances = << >>
             THEN << >>
             ELSE IF idx > Len(tx.pre_balances) \/ idx > Len(tx.post_balances)
             THEN << >>
             ELSE IF is_incoming(tx.pre_balances[idx], tx.post_balances[idx])
             THEN << [ signature |-> sig_info.signature,
                       amount |-> tx.post_balances[idx] - tx.pre_balances[idx],
                       confirmed |-> TRUE ] >>
             ELSE << >>

RECURSIVE check_wallet_transactions(_, _)
check_wallet_transactions(wallet, response) ==
    IF response = << >> THEN << >>
    ELSE inspect(Head(response), wallet)
         \o check_wallet_transactions(wallet, Tail(response))

\* a call of check_wallet_transactions returns; when get_signatures_for_address
\* raises the handler around the function returns the empty list
ScanWallet(wallet, rpc_ok) ==
    /\ events < MaxEvents
    /\ events' = events + 1
    /\ returned' =
         [ wallet |-> wallet,
           transactions |-> IF rpc_ok
                            THEN check_wallet_transactions(wallet,
                                                           sig_response)
                            ELSE << >> ]
    /\ UNCHANGED << now, pending_sol_payments, processed_sol_transactions,
                    chain, worker, running, unreserved, finalize_calls >>
    /\ UNCHANGED << oracle_vars, forward_vars, shop_vars >>

ScanInit ==
    /\ InitMatcher
    /\ returned = NoReturn
    /\ sol_price_cache = [ price |-> 0, timestamp |-> 0 ]
    /\ retry = NoRetry
    /\ sig_response \in SigResponses
    /\ InitForward
    /\ InitShop

ScanNext ==
    \E wallet \in ScanWallets, rpc_ok \in BOOLEAN :
        ScanWallet(wallet, rpc_ok)

ScanSpec == ScanInit /\ [][ScanNext]_vars

\* --------------------------------------------------- _finalize_purchase

\* the customers whose purchases are finalized, the products of the shop and
\* the units each has at the start; product 1 has media rows, product 2 none
Users == {"u1", "u2"}
ProductIds == {1, 2}
InitialStock == {0, 1, 2}
FinalizeBaskets == { << >>, <<1>>, <<2>>, <<1, 2>>, <<1, 1>> }
DiscountMaxUses == {1, 2}
\* how the delivery to the customer ends: everything sent; the media group
\* or an animation not sent after all retries (caught next to the send); an
\* exception that reaches the handler around the whole delivery
DeliveryOutcomes == {"delivered", "media_group_failed", "animation_failed",
                     "raised"}

NoFinalize ==
    [ pc |-> "idle", basket_snapshot |-> << >>, discount_code_used |-> FALSE,
      processed_product_ids |-> << >> ]

\* SELECT id, available ... WHERE id IN (...), then the check of every item
prevalidated(prods, basket_snapshot) ==
    \A i \in 1..Len(basket_snapshot) :
        /\ basket_snapshot[i] \in DOMAIN prods
        /\ prods[basket_snapshot[i]].available > 0

\* a decrement loop whose UPDATE has no `AND available > 0`
RECURSIVE decrement_stock_unguarded(_, _)
decrement_stock_unguarded(prods, items) ==
    IF items = << >>
    THEN [ ok |-> TRUE, products |-> prods ]
    ELSE IF Head(items) \in DOMAIN prods
    THEN decrement_stock_unguarded(
             [prods EXCEPT ![Head(items)].available = @ - 1], Tail(items))
    ELSE [ ok |-> FALSE, products |-> prods ]

\* a decrement loop whose UPDATE is guarded by `available >= 0`
RECURSIVE decrement_stock_nonnegative(_, _)
decrement_stock_nonnegative(prods, items) ==
    IF items = << >>
    THEN [ ok |-> TRUE, products |-> prods ]
    ELSE IF /\ Head(items) \in DOMAIN prods
            /\ prods[Head(items)].available >= 0
    THEN decrement_stock_nonnegative(
             [prods EXCEPT ![Head(items)].available = @ - 1], Tail(items))
    ELSE [ ok |-> FALSE, products |-> prods ]

\* the loop of UPDATE products SET available = available - 1
\* WHERE id = ? AND available > 0; a rowcount of 0 ends it
RECURSIVE decrement_stock(_, _)
decrement_stock(prods, items) ==
    IF items = << >>
    THEN [ ok |-> TRUE, products |-> prods ]
    ELSE IF /\ Head(items) \in DOMAIN prods
            /\ prods[Head(items)].available > 0
    THEN decrement_stock(
             [prods EXCEPT ![Head(items)].available = @ - 1], Tail(items))
    ELSE [ ok |-> FALSE, products |-> prods ]

\* the purchases rows of a basket
purchases_to_insert(user_id, basket_snapshot) ==
    [ i \in 1..Len(basket_snapshot) |->
        [ user_id |-> user_id, product_id |-> basket_snapshot[i] ] ]

\* an increment of uses_count that ignores max_uses
discount_applies_always(codes) == TRUE

\* WHERE code = ? AND (max_uses IS NULL OR uses_count < max_uses)
discount_applies(codes) == codes.uses_count < codes.max_uses

\* the customer has paid for a basket; _finalize_purchase is called
FinalizeCall(user_id, basket_snapshot, discount_code_used) ==
    /\ finalizer[user_id].pc = "idle"
    /\ events < MaxEvents
    /\ events' = events + 1
    /\ users_basket' = [users_basket EXCEPT ![user_id] = TRUE]
    /\ IF basket_snapshot = << >>
       THEN /\ returned' = [ value |-> FALSE ]
            /\ finalizer' = [finalizer EXCEPT ![user_id] = NoFinalize]
       ELSE /\ finalizer' = [finalizer EXCEPT ![user_id] =
                   [ pc |-> "db", basket_snapshot |-> basket_snapshot,
                     discount_code_used |-> discount_code_used,
                     processed_product_ids |-> << >> ]]
            /\ UNCHANGED returned
    /\ UNCHANGED << now, pending_sol_payments, processed_sol_transactions,
                    chain, worker, running, unreserved, finalize_calls >>
    /\ UNCHANGED << products, product_media, purchases, discount_codes >>
    /\ UNCHANGED << oracle_vars, forward_vars >>

\* the transaction from BEGIN IMMEDIATE to commit or rollback
FinalizeDb(user_id, db_ok) ==
    /\ finalizer[user_id].pc = "db"
    /\ LET f == finalizer[user_id]
           loop == decrement_stock(products, f.basket_snapshot)
       IN  IF /\ db_ok
              /\ prevalidated(products, f.basket_snapshot)
              /\ loop.ok
           THEN /\ products' = loop.products
                /\ purchases' = purchases \o
                      purchases_to_insert(user_id, f.basket_snapshot)
                /\ discount_codes' =
                      IF f.discount_code_used /\ discount_applies(discount_codes)
                      THEN [discount_codes EXCEPT !.uses_count = @ + 1]
                      ELSE discount_codes
                /\ users_basket' = [users_basket EXCEPT ![user_id] = FALSE]
                /\ finalizer' = [finalizer EXCEPT
                      ![user_id].pc = "deliver",
                      ![user_id].processed_product_ids = f.basket_snapshot]
                /\ UNCHANGED returned
           ELSE /\ returned' = [ value |-> FALSE ]
                /\ finalizer' = [finalizer EXCEPT ![user_id].pc = "idle"]
                /\ UNCHANGED << products, purchases, discount_codes,
                                users_basket >>
    /\ UNCHANGED product_media
    /\ UNCHANGED << matcher_vars, oracle_vars, forward_vars >>

\* the media rows of the processed products
media_details(ids) == { ids[i] : i \in 1..Len(ids) } \cap product_media

\* the delivery to the customer, then the deletion of the delivered products
FinalizeDeliver(user_id, outcome, delete_ok) ==
    /\ finalizer[user_id].pc = "deliver"
    /\ outcome \in {"media_group_failed", "animation_failed"}
          => media_details(finalizer[user_id].processed_product_ids) # {}
    /\ LET f == finalizer[user_id]
           ids == { f.processed_product_ids[i] :
                      i \in 1..Len(f.processed_product_ids) }
           media_delivery_successful == outcome # "raised"
       IN  /\ IF media_delivery_successful /\ delete_ok
              THEN /\ product_media' = product_media \ ids
                   /\ products' = [ id \in DOMAIN products \ ids |-> products[id] ]
              ELSE UNCHANGED << products, product_media >>
           /\ returned' = [ value |-> media_delivery_successful ]
           /\ finalizer' = [finalizer EXCEPT ![user_id].pc = "idle"]
    /\ UNCHANGED << purchases, discount_codes, users_basket >>
    /\ UNCHANGED << matcher_vars, oracle_vars, forward_vars >>

FinalizeInit ==
    /\ InitMatcher
    /\ returned = NoReturn
    /\ InitOracle
    /\ InitForward
    /\ \E ids \in {{1}, {1, 2}} : products \in [ ids -> [available : InitialStock] ]
    /\ product_media = {1}
    /\ purchases = << >>
    /\ \E n \in DiscountMaxUses : discount_codes = [ uses_count |-> 0, max_uses |-> n ]
    /\ users_basket = [ u \in Users |-> FALSE ]
    /\ finalizer = [ u \in Users |-> NoFinalize ]

FinalizeNext ==
    \/ \E u \in Users, b \in FinalizeBaskets, code \in BOOLEAN :
          FinalizeCall(u, b, code)
    \/ \E u \in Users, ok \in BOOLEAN : FinalizeDb(u, ok)
    \/ \E u \in Users, o \in DeliveryOutcomes, ok \in BOOLEAN :
          FinalizeDeliver(u, o, ok)

FinalizeSpec == FinalizeInit /\ [][FinalizeNext]_vars

\* ================================================================ claims

Status(p) == pending_sol_payments[p].status
Signature(p) == pending_sol_payments[p].transaction_signature
Age(p) == now - pending_sol_payments[p].created_at
ProcessedRows == { processed_sol_transactions[i] :
                     i \in 1..Len(processed_sol_transactions) }
OnChain == { chain[i] : i \in 1..Len(chain) }

\* a transfer the matcher would take for payment p
MatchingUnprocessed(p) ==
    { t \in OnChain :
        /\ t.to = pending_sol_payments[p].expected_wallet
        /\ 1000 * pending_sol_payments[p].expected_sol_amount
             - pending_sol_payments[p].expected_sol_amount <= t.lamports
        /\ t.lamports <= 1000 * pending_sol_payments[p].expected_sol_amount
             + pending_sol_payments[p].expected_sol_amount
        /\ t.block_time >= pending_sol_payments[p].created_at - 30
        /\ \A r \in ProcessedRows : r.signature # t.signature }

\* C1: every transfer signature is recorded in processed_sol_transactions at
\* most once, and no two distinct intents are confirmed with the same
\* signature, whatever the interleaving of the workers' cycles.
C1_SignatureOnce ==
    /\ \A i, j \in 1..Len(processed_sol_transactions) :
          i # j => processed_sol_transactions[i].signature
                     # processed_sol_transactions[j].signature
    /\ \A p, q \in Rows :
          (p # q /\ Status(p) = "confirmed" /\ Status(q) = "confirmed")
             => Signature(p) # Signature(q)

\* two intents were locked for the same transfer by two workers; one was
\* confirmed with it, the other lost the re-check of the confirmation
\* transaction and is left in processing
C1_Witness ==
    \E p, q \in Rows, w \in Workers :
        /\ p # q
        /\ Status(p) = "confirmed"
        /\ Status(q) = "processing"
        /\ worker[w].pc = "match"
        /\ Cur(w) = q
        /\ worker[w].k > 1
        /\ worker[w].transactions[worker[w].k - 1] = Signature(p)
        /\ Cardinality(ProcessedRows) = 1

\* C2: every change of an intent's status follows the strict machine
\* pending->processing, processing->confirmed, processing->failed,
\* failed->pending, processing->pending (stall sweep only), pending->expired,
\* pending->cancelled; expired, cancelled and confirmed are never overwritten.
LegalTransitions ==
    { << "pending", "processing" >>, << "processing", "confirmed" >>,
      << "processing", "failed" >>, << "failed", "pending" >>,
      << "processing", "pending" >>, << "pending", "expired" >>,
      << "pending", "cancelled" >> }

C2_StrictMachine ==
    [][ \A p \in Rows :
          Status(p) # pending_sol_payments'[p].status
            => /\ << Status(p), pending_sol_payments'[p].status >> \in LegalTransitions
               /\ (Status(p) = "processing" /\ pending_sol_payments'[p].status = "pending")
                    => \E w \in Workers : worker[w].pc = "idle" /\ worker'[w] # worker[w]
      ]_vars

\* C3: at most one worker is in the post-lock section (forward, confirm,
\* finalize) of a given intent at any moment.
PostLock(p) ==
    { w \in Workers : worker[w].pc \in {"forward", "confirm", "finalize"} /\ Cur(w) = p }

C3_SingleOwner == \A p \in Rows : Cardinality(PostLock(p)) <= 1

\* C4: an intent is confirmed with signature s if and only if
\* processed_sol_transactions holds a row for s bound to that intent.
C4_ConfirmedIffProcessed ==
    \A p \in Rows : \A t \in OnChain :
        (Status(p) = "confirmed" /\ Signature(p) = t.signature)
          <=> [ signature |-> t.signature, payment_id |-> p ] \in ProcessedRows

C6_FailedSweptToPending ==
    [][ \A w \in Workers :
          SweepAndLoad(w)
            => \A p \in Rows :
                 (Status(p) = "failed" /\ Age(p) > 2)
                   => pending_sol_payments'[p].status = "pending"
      ]_vars

\* C7: the sweep at the start of a cycle sets every processing intent created
\* more than 2 minutes ago to pending and that cycle's pending list holds it;
\* it changes no other intent.
C7_StallSweep ==
    [][ \A w \in Workers :
          SweepAndLoad(w)
            => \A p \in Rows :
                 IF Status(p) = "processing" /\ Age(p) > 2
                 THEN /\ pending_sol_payments'[p] =
                           [ pending_sol_payments[p] EXCEPT !.status = "pending" ]
                      /\ \E i \in 1..Len(worker'[w].queue) : worker'[w].queue[i] = p
                 ELSE pending_sol_payments'[p] = pending_sol_payments[p]
      ]_vars

\* a cycle has just begun whose sweep took an intent from a worker that is
\* still forwarding for it
C7_Witness ==
    \E w, v \in Workers :
        /\ w # v
        /\ running = w
        /\ worker[w].pc = "visit"
        /\ worker[w].idx = 1
        /\ worker[v].pc = "forward"
        /\ Status(Cur(v)) = "pending"
        /\ Age(Cur(v)) > 2
        /\ \E i \in 1..Len(worker[w].queue) : worker[w].queue[i] = Cur(v)

\* C8: once an intent is confirmed or has a recorded signature, its row
\* never changes again and the matcher never finalizes or unreserves it again.
C8_NeverRevisited ==
    [][ \A p \in Rows :
          (Status(p) = "confirmed" \/ Signature(p) # NoSignature)
            => /\ pending_sol_payments'[p] = pending_sol_payments[p]
               /\ unreserved'[p] = unreserved[p]
               /\ (finalize_calls'[p] # finalize_calls[p]
                     => finalize_calls[p] = 0)
      ]_vars

\* C9: when the finalizer reports success for a direct (wallet1) intent that
\* was matched by a transfer of exactly the expected amount, the intent is
\* confirmed, the purchase is finalized, and the intent row is gone.
C9_RowDeleted ==
    [][ \A w \in Workers :
          ( /\ Finalize(w, TRUE)
            /\ pending_sol_payments[Cur(w)].expected_wallet = "wallet1"
            /\ TxOf(CurSig(w)).lamports
                 = 1000 * pending_sol_payments[Cur(w)].expected_sol_amount )
            => /\ Status(Cur(w)) = "confirmed"
               /\ finalize_calls'[Cur(w)] = finalize_calls[Cur(w)] + 1
               /\ Cur(w) \notin DOMAIN pending_sol_payments'
      ]_vars

C11_ToleranceBand ==
    [][ \A w \in Workers :
          ( /\ Lock(w)
            /\ Status(Cur(w)) = "pending"
            /\ TxOf(CurSig(w)).block_time
                  >= pending_sol_payments[Cur(w)].created_at - 30
            /\ \A r \in ProcessedRows : r.signature # CurSig(w) )
            => ( pending_sol_payments'[Cur(w)].status = "processing"
                   <=> /\ 1000 * pending_sol_payments[Cur(w)].expected_sol_amount
                            - pending_sol_payments[Cur(w)].expected_sol_amount
                              <= TxOf(CurSig(w)).lamports
                       /\ TxOf(CurSig(w)).lamports
                              <= 1000 * pending_sol_payments[Cur(w)].expected_sol_amount
                                   + pending_sol_payments[Cur(w)].expected_sol_amount )
      ]_vars

\* an intent expecting 0.100000 SOL was locked for a transfer of 0.100100 SOL,
\* the upper edge of the band
C11_Witness ==
    \E p \in Rows, t \in OnChain :
        /\ Status(p) = "processing"
        /\ pending_sol_payments[p].expected_sol_amount = 100000
        /\ t.lamports = 100100000
        /\ \E w \in Workers : worker[w].pc \in {"forward", "confirm"} /\ Cur(w) = p

\* C12: a transfer whose block time is earlier than created_at - 30 minutes
\* is never matched to the intent: no worker is past the lock with it, it is
\* never recorded for the intent, and the intent stays pending when it is the
\* only transfer, even when its amount is inside the band.
C12_TooOldNeverMatched ==
    \A p \in Rows : \A t \in OnChain :
        t.block_time < pending_sol_payments[p].created_at - 30
          => /\ \A w \in Workers :
                  (worker[w].pc \in {"forward", "confirm", "finalize"} /\ Cur(w) = p)
                    => CurSig(w) # t.signature
             /\ [ signature |-> t.signature, payment_id |-> p ] \notin ProcessedRows
             /\ Signature(p) # t.signature
             /\ (Cardinality(OnChain) = 1 => Status(p) = "pending")

\* the matcher is deciding on a transfer of exactly the expected amount that
\* is 31 minutes older than the intent
C12_Witness ==
    \E w \in Workers :
        /\ worker[w].pc = "match"
        /\ TxOf(CurSig(w)).lamports
              = 1000 * pending_sol_payments[Cur(w)].expected_sol_amount
        /\ TxOf(CurSig(w)).block_time + 31 = pending_sol_payments[Cur(w)].created_at
        /\ TxOf(CurSig(w)).to = pending_sol_payments[Cur(w)].expected_wallet
\* the wallet the table of C13 gives a basket; an item without a tag counts
\* as tagged wallet1
C13_Table(b) ==
    LET tag(i) == IF b[i] = NoTag THEN "wallet1" ELSE b[i]
    IN  IF b = << >> THEN "wallet1"
        ELSE IF \E i \in 1..Len(b) : tag(i) = "split" THEN "middleman"
        ELSE IF \A i, j \in 1..Len(b) : tag(i) = tag(j) THEN tag(1)
        ELSE "middleman"

C13_Configured(name) ==
    CASE name = "wallet1" -> "SOL_WALLET1_ADDRESS"
      [] name = "wallet2" -> "SOL_WALLET2_ADDRESS"
      [] name = "middleman" -> "SOL_MIDDLEMAN_ADDRESS"

\* C13: the wallet stored with every intent is the one the table gives its
\* basket snapshot (empty: wallet1; any split item: middleman; one shared
\* direct tag: that wallet; several direct tags: middleman), and a successful
\* create_sol_payment returns that wallet's name and its configured address.
C13_WalletChoice ==
    /\ \A p \in Rows :
          pending_sol_payments[p].expected_wallet =
              C13_Table(pending_sol_payments[p].basket_snapshot)
    /\ "payment_id" \in DOMAIN returned =>
          /\ returned.payment_id \in Rows
          /\ returned.wallet_name =
                C13_Table(pending_sol_payments[returned.payment_id].basket_snapshot)
          /\ returned.wallet_address = C13_Configured(returned.wallet_name)

\* an intent for a basket of two different direct tags was created and given
\* the shared wallet, after one for a single wallet2 item
C13_Witness ==
    /\ "payment_id" \in DOMAIN returned
    /\ returned.payment_id = 2
    /\ pending_sol_payments[2].basket_snapshot = <<"wallet1", "wallet2">>
    /\ pending_sol_payments[2].expected_wallet = "middleman"
    /\ returned.wallet_address = "SOL_MIDDLEMAN_ADDRESS"
    /\ pending_sol_payments[1].basket_snapshot = <<"wallet2">>
    /\ pending_sol_payments[1].expected_wallet = "wallet2"

\* C14: a create_sol_payment whose total converts, at the oracle price and
\* with the 1% buffer, to less than 0.01 SOL returns amount_too_low and
\* stores no intent, whatever the random offset.
C14_BelowMinimumRejected ==
    [][ \A b \in CreateBaskets, e \in CreateEurCents,
           pr \in CreatePriceCents, o \in CreateOffsets :
          ( /\ create_sol_payment(b, e, pr, o)
            /\ CeilDiv(CeilDiv(e * 1000000, pr) * 101, 100) < 10000 )
          => /\ returned' = [ error |-> "amount_too_low" ]
             /\ pending_sol_payments' = pending_sol_payments ]_vars

\* C15: two intents created for the same total at the same oracle price
\* (both amounts are amounts of that total and price) have different
\* expected amounts.
C15_DistinctAmounts ==
    \A p, q \in Rows :
      \A e \in CreateEurCents, pr \in CreatePriceCents :
        ( /\ p # q
          /\ \E o \in CreateOffsets :
               pending_sol_payments[p].expected_sol_amount = sol_amount(e, pr, o)
          /\ \E o \in CreateOffsets :
               pending_sol_payments[q].expected_sol_amount = sol_amount(e, pr, o) )
        => pending_sol_payments[p].expected_sol_amount
             # pending_sol_payments[q].expected_sol_amount

\* the transfers a caller has sent in its current or last forward
C16_SentSome(w) ==
    \/ forwarder[w].pc \in {"recheck", "send1"}
    \/ forwarder[w].results.wallet1
    \/ forwarder[w].results.wallet2

\* C16: in every forward that sends a transfer the two shares together are
\* at most the source amount X, each share is the 20% / 80% part of the
\* forwarded amount rounded down to 0.000001 SOL (1000 lamports) and both
\* are at least 0.000010 SOL; a forward that computes a share below
\* 0.000010 SOL sends nothing and returns both results false.
C16_SplitShares ==
    /\ [](\A w \in Workers :
            LET f == forwarder[w]
                a1 == f.amount_wallet1
                a2 == f.amount_wallet2
            IN  (f.pc = "send2" \/ C16_SentSome(w)) =>
                  /\ (a1 + a2) * 1000 <= f.total_sol_amount
                  /\ 5 * (a1 * 1000) <= f.forwardable
                  /\ f.forwardable < 5 * ((a1 + 1) * 1000)
                  /\ 5 * (a2 * 1000) <= 4 * f.forwardable
                  /\ 4 * f.forwardable < 5 * ((a2 + 1) * 1000)
                  /\ a1 >= 10
                  /\ a2 >= 10)
    /\ [][ \A w \in Workers :
             ( /\ forwarder[w].pc = "lock"
               /\ forwarder'[w].pc # "lock"
               /\ forwarder'[w].forwardable > 0
               /\ \/ forwarder'[w].amount_wallet1 < 10
                  \/ forwarder'[w].amount_wallet2 < 10 )
             => /\ forwarder'[w].pc = "idle"
                /\ returned' = [wallet1 |-> FALSE, wallet2 |-> FALSE]
                /\ sent' = sent ]_vars

\* a forward of 0.015151 SOL has sent both shares, 0.003030 and 0.012120 SOL,
\* and another forward was refused for a 20% share of 0.000008 SOL
C16_Witness ==
    /\ \E w \in Workers :
          /\ forwarder[w].pc = "idle"
          /\ forwarder[w].total_sol_amount = 15151000
          /\ forwarder[w].forwardable = 15151000
          /\ forwarder[w].amount_wallet1 = 3030
          /\ forwarder[w].amount_wallet2 = 12120
          /\ forwarder[w].results = [wallet1 |-> TRUE, wallet2 |-> TRUE]
    /\ \E w \in Workers :
          /\ forwarder[w].pc = "idle"
          /\ forwarder[w].forwardable = 40000
          /\ forwarder[w].amount_wallet1 = 8
          /\ forwarder[w].results = [wallet1 |-> FALSE, wallet2 |-> FALSE]
    /\ Len(sent) = 2

\* C20: every call of get_sol_price_eur returns a price above zero, whatever
\* the request ends in: the cached price while the cache is valid, else the
\* fresh price of a successful request, else after a failed request the last
\* cached price however old, else the default of 135.00 EUR.
C20_PriceAlways ==
    [][ \A outcome \in UpstreamOutcomes, fresh \in FreshPrices :
          get_sol_price_eur(outcome, fresh) =>
            /\ DOMAIN returned' = {"price"}
            /\ returned'.price > 0
            /\ returned'.price =
                 IF sol_price_cache.price > 0
                    /\ now - sol_price_cache.timestamp < 90
                 THEN sol_price_cache.price
                 ELSE IF outcome = "success" THEN fresh
                 ELSE IF sol_price_cache.price > 0 THEN sol_price_cache.price
                 ELSE 13500 ]_vars

\* a failed request with nothing cached has returned the default, and the
\* clock is past the cache duration
C20_Witness ==
    /\ returned = [ price |-> 13500 ]
    /\ sol_price_cache.price = 13500
    /\ sol_price_cache.timestamp >= 90
    /\ now = sol_price_cache.timestamp

\* how often product id occurs in a basket
C17_Count(basket, id) == Cardinality({ i \in 1..Len(basket) : basket[i] = id })

\* some item of the basket cannot be served from the stock
C17_OutOfStock(basket) ==
    \E i \in 1..Len(basket) :
        \/ basket[i] \notin DOMAIN products
        \/ products[basket[i]].available <= 0
        \/ C17_Count(basket, basket[i]) > products[basket[i]].available

\* C17: when the transaction of _finalize_purchase runs for a basket with an
\* item whose product is missing, has no unit available, or occurs more often
\* than units are available, the call returns false and no stock is
\* decremented, no purchase row inserted, no discount use counted and the
\* user's basket not cleared.
C17_AllOrNothing ==
    [][ \A u \in Users :
          ( /\ \E ok \in BOOLEAN : FinalizeDb(u, ok)
            /\ C17_OutOfStock(finalizer[u].basket_snapshot) )
          => /\ returned' = [ value |-> FALSE ]
             /\ finalizer'[u].pc = "idle"
             /\ products' = products
             /\ purchases' = purchases
             /\ discount_codes' = discount_codes
             /\ users_basket' = users_basket ]_vars

\* a basket with product 1 twice was refused while one unit was available:
\* the unit is still there, nothing was bought, the basket is still filled
C17_Witness ==
    \E u \in Users :
        /\ finalizer[u].pc = "idle"
        /\ finalizer[u].basket_snapshot = <<1, 1>>
        /\ 1 \in DOMAIN products
        /\ products[1].available = 1
        /\ returned = [ value |-> FALSE ]
        /\ purchases = << >>
        /\ discount_codes.uses_count = 0
        /\ users_basket[u]

\* C18: the uses of a discount code never exceed its max_uses, however the
\* finalizations that redeem it interleave, and a finalization that commits
\* when uses_count = max_uses leaves uses_count as it is.
C18_DiscountCap ==
    /\ [](discount_codes.uses_count <= discount_codes.max_uses)
    /\ [][ \A u \in Users :
             ( /\ \E ok \in BOOLEAN : FinalizeDb(u, ok)
               /\ discount_codes.uses_count = discount_codes.max_uses )
             => discount_codes'.uses_count = discount_codes.uses_count ]_vars

\* two finalizations that redeem a code with max_uses = 1 ran at the same
\* time and both committed their purchases; the code was counted once
C18_Witness ==
    /\ discount_codes = [ uses_count |-> 1, max_uses |-> 1 ]
    /\ \A u \in Users :
          /\ finalizer[u].pc = "deliver"
          /\ finalizer[u].discount_code_used
    /\ Len(purchases) >= 2

\* C19: once the transaction has committed, a delivery that fails makes
\* _finalize_purchase return false and keeps the purchased product rows and
\* their media; a delivery that succeeds makes it return true and deletes
\* them.
C19_DeliveryDecides ==
    [][ \A u \in Users, o \in DeliveryOutcomes, ok \in BOOLEAN :
          FinalizeDeliver(u, o, ok) =>
            IF o = "delivered"
            THEN /\ returned' = [ value |-> TRUE ]
                 /\ \A i \in 1..Len(finalizer[u].processed_product_ids) :
                       /\ finalizer[u].processed_product_ids[i]
                             \notin DOMAIN products'
                       /\ finalizer[u].processed_product_ids[i]
                             \notin product_media'
            ELSE /\ returned' = [ value |-> FALSE ]
                 /\ products' = products
                 /\ product_media' = product_media ]_vars

\* C21: a call of get_sol_price_eur whose request to the price service fails
\* caches the price it returns, the stale cached one or the default, with
\* the current time, so that the next call inside the cache duration is
\* answered from the cache.
C21_RecachedAfterFailure ==
    [][ \A outcome \in UpstreamOutcomes \ {"success"}, fresh \in FreshPrices :
          ( /\ get_sol_price_eur(outcome, fresh)
            /\ events' # events )
          => /\ sol_price_cache' = [ price |-> returned'.price, timestamp |-> now ]
             /\ sol_price_cache'.price > 0
             /\ now - sol_price_cache'.timestamp < 90 ]_vars

\* C22: no product ever has a negative number of available units, however
\* the finalizations of baskets that share a product interleave; a
\* transaction that comes to decrement a product with no unit left changes
\* no stock at all.
C22_StockNeverNegative ==
    /\ [](\A id \in DOMAIN products : products[id].available >= 0)
    /\ [][ \A u \in Users :
             ( /\ \E ok \in BOOLEAN : FinalizeDb(u, ok)
               /\ \E i \in 1..Len(finalizer[u].basket_snapshot) :
                    LET id == finalizer[u].basket_snapshot[i]
                    IN  /\ id \in DOMAIN products
                        /\ products[id].available
                             < C17_Count(finalizer[u].basket_snapshot, id) )
             => products' = products ]_vars

\* two finalizations of baskets with product 1 ran at the same time while
\* one unit was available: one committed, the other was refused, no unit left
C22_Witness ==
    /\ finalizer["u1"].pc = "deliver"
    /\ finalizer["u1"].basket_snapshot = <<1>>
    /\ finalizer["u2"].pc = "idle"
    /\ finalizer["u2"].basket_snapshot = <<1>>
    /\ returned = [ value |-> FALSE ]
    /\ 1 \in DOMAIN products
    /\ products[1].available = 0
    /\ Len(purchases) = 1

\* a caller is inside the body of the forward: it holds the lock and awaits
\* a transfer or the pause between the two
C23_InBody(w) == forwarder[w].pc \in {"send2", "recheck", "send1"}

\* C23: at most one caller of forward_split_payment is inside the body
\* (balance read, transfers, log write) at any time, and it holds the lock;
\* a caller reads the balance for the first time only when no other caller
\* is inside the body.
C23_ForwardSerialized ==
    /\ [](\A v, w \in Workers :
            /\ (C23_InBody(v) /\ C23_InBody(w)) => v = w
            /\ C23_InBody(w) => split_forward_lock = w)
    /\ [][ \A w \in Workers :
             (\E ok \in BOOLEAN : ForwardBalance(w, ok))
             => \A v \in Workers \ {w} : ~C23_InBody(v) ]_vars

\* one caller has sent the 80% transfer and is in the pause before the
\* second balance read while the other caller waits for the lock
C23_Witness ==
    /\ forwarder["w1"].pc = "recheck"
    /\ split_forward_lock = "w1"
    /\ forwarder["w2"].pc = "lock"
    /\ Len(sent) = 1

\* C24: in every forward the 80% transfer to wallet2 comes before the 20%
\* transfer to wallet1; when the 80% transfer fails the forward ends with
\* both results false and nothing sent, so a result with wallet1 true always
\* has wallet2 true.
C24_MajorityFirst ==
    /\ [](/\ \A w \in Workers :
               forwarder[w].results.wallet1 => forwarder[w].results.wallet2
          /\ \A i \in 1..Len(sent) :
               sent[i].to = "wallet1" =>
                 /\ i > 1
                 /\ sent[i - 1].to = "wallet2"
                 /\ sent[i - 1].by = sent[i].by)
    /\ [][ \A w \in Workers :
             ForwardWallet2(w, FALSE) =>
               /\ sent' = sent
               /\ forwarder'[w].pc = "idle"
               /\ returned' = [wallet1 |-> FALSE, wallet2 |-> FALSE] ]_vars

\* one forward has ended because its 80% transfer failed, after an earlier
\* forward had sent both transfers, wallet2 first
C24_Witness ==
    /\ Len(sent) = 2
    /\ sent[1].to = "wallet2"
    /\ sent[2].to = "wallet1"
    /\ returned = [wallet1 |-> FALSE, wallet2 |-> FALSE]
    /\ \E w \in Workers :
          /\ forwarder[w].pc = "idle"
          /\ forwarder[w].amount_wallet1 >= 10
          /\ forwarder[w].amount_wallet2 >= 10
          /\ forwarder[w].results = [wallet1 |-> FALSE, wallet2 |-> FALSE]
          /\ sent[1].by # w

\* C25: once a forward has sent the 80% transfer for a source transfer
\* without the 20% transfer, no later forward of the matcher sends an 80%
\* transfer for that source transfer again.
C25_NoSecondMajorityLeg ==
    \A i, j \in 1..Len(sent) :
        ( /\ i < j
          /\ sent[i].to = "wallet2"
          /\ sent[j].to = "wallet2"
          /\ sent[i].source = sent[j].source )
        => /\ sent[i + 1].to = "wallet1"
           /\ sent[i + 1].source = sent[i].source

\* C26: what a forward sends over both transfers is never more than the
\* smaller of the source amount and the balance the wallet had when the
\* forward started less the reserve (0.002 SOL) and the fee buffer
\* (0.00002 SOL), also when the balance cannot be read, so that no transfer
\* of a forward leaves the wallet below the reserve. (The network takes
\* 0.000005 SOL for a transfer.)
C26_WithinForwardable ==
    [][ \A w \in Workers :
          LET f == forwarder[w]
              a1 == f.amount_wallet1 * 1000
              a2 == f.amount_wallet2 * 1000
          IN  /\ ForwardWallet2(w, TRUE) =>
                   /\ a2 <= f.total_sol_amount
                   /\ a2 <= middleman_balance - 2000000 - 20000
                   /\ middleman_balance' >= 2000000
              /\ ForwardWallet1(w, TRUE) =>
                   /\ a1 + a2 <= f.total_sol_amount
                   /\ a1 + a2 <= (middleman_balance + a2 + 5000) - 2000000 - 20000
                   /\ middleman_balance' >= 2000000 ]_vars


\* C27: a forward that starts while the balance of the middleman wallet less
\* the reserve and the fee buffer for two transfers is zero or less sends no
\* transfer and returns both legs false: at once when it has read the
\* balance, and at its first transfer when it could not read it. (Until its
\* first transfer a forward holds the lock, so the balance is still the one
\* it started with.)
C27_NothingToForward ==
    [][ \A w \in Workers :
          max_forwardable(middleman_balance) <= 0 =>
            /\ (\E balance_read \in BOOLEAN : ForwardBalance(w, balance_read))
                  => /\ sent' = sent
                     /\ middleman_balance' = middleman_balance
            /\ (ForwardBalance(w, TRUE)
                 \/ \E sig2 \in BOOLEAN : ForwardWallet2(w, sig2))
                  => /\ sent' = sent
                     /\ middleman_balance' = middleman_balance
                     /\ forwarder'[w].pc = "idle"
                     /\ returned' = [wallet1 |-> FALSE, wallet2 |-> FALSE] ]_vars

\* a forward of 0.015151 SOL has ended with both legs false at a wallet that
\* holds exactly the reserve and the fee buffer
C27_Witness ==
    /\ max_forwardable(middleman_balance) <= 0
    /\ forwarder["w1"].pc = "idle"
    /\ forwarder["w1"].total_sol_amount = 15151000
    /\ forwarder["w1"].forwardable = 0
    /\ returned = [wallet1 |-> FALSE, wallet2 |-> FALSE]
    /\ sent = << >>


\* C28: the 20% transfer is sent only when the balance of the middleman
\* wallet, as it is after the 80% transfer, covers the 20% share, the fee
\* estimate of one transfer and the reserve. (Between the balance check and
\* the transfer the forward holds the lock, so the balance is the one the
\* check reads.)
C28_MinorityLegCovered ==
    [][ \A w \in Workers :
          ForwardWallet1(w, TRUE) =>
            middleman_balance >= forwarder[w].amount_wallet1 * 1000
                                   + TX_FEE_ESTIMATE + MIN_RESERVE_BALANCE ]_vars


\* C29: every forward that ends, whatever ended it, has added exactly one
\* entry to sol_forwarding_log, with the amounts of both legs and the
\* overall success flag, and no step changes or removes an entry that is
\* already there.
C29_EveryForwardLogged ==
    [][ /\ Len(sol_forwarding_log') >= Len(sol_forwarding_log)
        /\ SubSeq(sol_forwarding_log', 1, Len(sol_forwarding_log))
              = sol_forwarding_log
        /\ \A w \in Workers :
              (forwarder[w].pc # "idle" /\ forwarder'[w].pc = "idle") =>
                 sol_forwarding_log' =
                    Append(sol_forwarding_log,
                           [ wallet1_amount |-> forwarder'[w].amount_wallet1,
                             wallet2_amount |-> forwarder'[w].amount_wallet2,
                             success |-> /\ forwarder'[w].results.wallet1
                                         /\ forwarder'[w].results.wallet2 ]) ]_vars


\* C30: a worker whose lock transaction finds the intent no longer pending,
\* or finds no transfer that is still unprocessed, goes on without a
\* forward, a confirmation or a finalization for that intent, and leaves the
\* status of every intent as it is.
C30_RefusedLockDoesNothing ==
    [][ \A w \in Workers :
          ( /\ Lock(w)
            /\ \/ ~ (pending_sol_payments[Cur(w)].status = "pending")
               \/ FirstCandidate(Cur(w), worker[w].transactions, worker[w].k) = 0 )
          => /\ pending_sol_payments' = pending_sol_payments
             /\ processed_sol_transactions' = processed_sol_transactions
             /\ finalize_calls' = finalize_calls
             /\ sent' = sent
             /\ worker'[w].pc \notin {"forward", "confirm", "finalize"} ]_vars

\* worker w2 is about to run the lock transaction for a matching transfer of
\* an intent that worker w1 has locked and is forwarding
C30_Witness ==
    /\ running = "w2"
    /\ worker["w2"].pc = "match"
    /\ worker["w1"].pc = "forward"
    /\ Cur("w1") = Cur("w2")
    /\ pending_sol_payments[Cur("w2")].status = "processing"
    /\ FirstCandidate(Cur("w2"), worker["w2"].transactions, worker["w2"].k) # 0


\* C31: a worker that is inside a cycle ends the cycle only at the last
\* intent of the list it loaded: whatever happens while one intent is
\* processed (a failed scan, a refused lock, a failed forward, a finalizer
\* that fails), the intents after it in the list are still visited.
C31_RemainingIntentsVisited ==
    [][ \A w \in Workers :
          (worker[w].pc \notin {"sleep", "idle"} /\ worker'[w].pc = "sleep")
          => worker[w].idx = Len(worker[w].queue) ]_vars


C33_CancelAllOrNothing ==
    [][ \A p \in Pids, outcome \in CancelOutcomes :
          cancel_sol_payment(p, outcome) =>
            /\ returned'.value =
                 ( /\ p \in Rows
                   /\ pending_sol_payments[p].status = "pending"
                   /\ pending_sol_payments'[p].status = "cancelled"
                   /\ unreserved'[p] = unreserved[p] + 1 )
            /\ ~ returned'.value =>
                 /\ pending_sol_payments' = pending_sol_payments
                 /\ unreserved' = unreserved ]_vars


\* C34: retry_rpc_call invokes the wrapped call at most max_retries times
\* (three by default). A call that succeeds ends it with that result; an
\* error other than a rate limit ends it at once with that error; a rate
\* limit is followed by a pause of base_delay * 2^(calls made before) and
\* another call, except on the last attempt, where the rate-limit error is
\* raised.
C34_BoundedRetry ==
    /\ [](retry.calls <= retry.max_retries /\ retry.max_retries <= 3)
    /\ [][ \A outcome \in RpcOutcomes, result \in RpcResults :
             RetryAttempt(outcome, result) =>
               /\ outcome = "ok" =>
                    /\ retry'.pc = "done"
                    /\ returned' = [ value |-> result ]
               /\ outcome = "error" =>
                    /\ retry'.pc = "done"
                    /\ returned' = [ raised |-> "error" ]
               /\ (outcome = "429" /\ retry.calls + 1 < retry.max_retries) =>
                    /\ retry'.pc = "sleep"
                    /\ retry'.delays =
                          Append(retry.delays, retry.base_delay * 2 ^ retry.calls)
                    /\ returned' = returned
               /\ (outcome = "429" /\ retry.calls + 1 >= retry.max_retries) =>
                    /\ retry'.pc = "done"
                    /\ returned' = [ raised |-> "429" ] ]_vars

\* with base_delay 2 the first two calls were rate limited, the pauses were
\* 2 s and 4 s, and the third call returned r1
C34_Witness ==
    /\ retry.pc = "done"
    /\ retry.max_retries = 3
    /\ retry.calls = 3
    /\ retry.delays = << 2, 4 >>
    /\ returned = [ value |-> "r1" ]


\* C35: check_wallet_transactions reports a signature exactly when the
\* transaction did not fail on chain, its data could be fetched, the wallet
\* is one of its account keys and the wallet's balance after is greater than
\* its balance before; the amount reported is the difference of the two; a
\* signature is reported once, and one whose inspection fails is left out
\* without any effect on the others.
C35_IncomingTransfers ==
    [][ \A wallet \in ScanWallets :
          ScanWallet(wallet, TRUE) =>
            LET txs == returned'.transactions
                Gain(s) ==
                    { s.tx.post_balances[idx] - s.tx.pre_balances[idx] :
                        idx \in { n \in DOMAIN s.tx.account_keys
                                         \cap DOMAIN s.tx.pre_balances
                                         \cap DOMAIN s.tx.post_balances :
                                    s.tx.account_keys[n] = wallet } }
            IN  /\ \A i \in 1..Len(sig_response) :
                      LET s == sig_response[i]
                          reported == { k \in 1..Len(txs) :
                                          txs[k].signature = s.signature }
                      IN  /\ (reported # {}) <=>
                                /\ ~ s.err
                                /\ s.fetch = "ok"
                                /\ \E gain \in Gain(s) : gain > 0
                          /\ Cardinality(reported) <= 1
                          /\ \A k \in reported : txs[k].amount \in Gain(s)
                /\ \A k \in 1..Len(txs) :
                      \E i \in 1..Len(sig_response) :
                          txs[k].signature = sig_response[i].signature ]_vars

\* get_transaction raised for the first signature, and the second, a transfer
\* of 2 lamports to wallet W, is reported
C35_Witness ==
    /\ Len(sig_response) = 2
    /\ sig_response[1].fetch = "raises"
    /\ returned = [ wallet |-> "W",
                    transactions |-> << [ signature |-> 2, amount |-> 2,
                                          confirmed |-> TRUE ] >> ]


\* C36: the finalizer runs for an intent only after the worker's
\* confirmation transaction has set the intent to confirmed and recorded the
\* matched signature in processed_sol_transactions, for an intent of the
\* shared wallet only after this worker's forward has sent both legs for
\* that signature; a forward is made only by a worker that came to it by
\* taking the intent from pending to processing.
C36_OrderOfSteps ==
    /\ [](\A w \in Workers :
            worker[w].pc = "finalize" =>
              /\ \E i \in 1..Len(processed_sol_transactions) :
                    processed_sol_transactions[i] =
                       [ signature |-> CurSig(w), payment_id |-> Cur(w) ]
              /\ pending_sol_payments[Cur(w)].expected_wallet = "middleman" =>
                    \A leg \in {"wallet1", "wallet2"} :
                       \E i \in 1..Len(sent) :
                          sent[i] = [ to |-> leg, by |-> w, source |-> CurSig(w) ])
    /\ [][ /\ \A p \in Pids :
                finalize_calls'[p] # finalize_calls[p] =>
                   \E w \in Workers : worker[w].pc = "finalize" /\ Cur(w) = p
           /\ \A w \in Workers :
                /\ (worker[w].pc # "finalize" /\ worker'[w].pc = "finalize") =>
                      /\ pending_sol_payments'[Cur(w)].status = "confirmed"
                      /\ pending_sol_payments'[Cur(w)].transaction_signature
                            = CurSig(w)
                /\ (worker[w].pc # "forward" /\ worker'[w].pc = "forward") =>
                      /\ pending_sol_payments[Cur(w)].status = "pending"
                      /\ pending_sol_payments'[Cur(w)].status = "processing"
           /\ sent' # sent =>
                \E w \in Workers : worker[w].pc = "forward" ]_vars

\* worker w1 awaits the finalizer for an intent of the shared wallet: the
\* intent is confirmed and both legs were sent for the matched signature
C36_Witness ==
    /\ worker["w1"].pc = "finalize"
    /\ pending_sol_payments[Cur("w1")].expected_wallet = "middleman"
    /\ pending_sol_payments[Cur("w1")].status = "confirmed"
    /\ Len(sent) = 2


\* C37: once a forward has sent both legs for a source signature, no
\* transfer is sent for that signature again.
C37_ForwardedOnce ==
    \A i \in 1..Len(sent) :
        ( /\ i < Len(sent)
          /\ sent[i].to = "wallet2"
          /\ sent[i + 1] = [ sent[i] EXCEPT !.to = "wallet1" ] )
        => \A j \in (i + 2)..Len(sent) : sent[j].source # sent[i].source


\* C38: finalize_sol_purchase is called at most once for an intent, whatever
\* the workers and the customer do.
C38_FinalizedOnce ==
    \A p \in Pids : finalize_calls[p] <= 1


\* C39: the reservations of an intent's basket are released at most once:
\* _unreserve_basket_items is called at most once for an intent, by the
\* cancellation or by one expiry visit.
C39_UnreservedOnce ==
    \A p \in Pids : unreserved[p] <= 1


\* C40: with the poll loop scheduled fairly and the clock advancing, every
\* intent that is pending or processing eventually is confirmed, failed,
\* expired or cancelled; none stays in processing forever.
C40_EveryIntentSettles ==
    \A p \in {1, 2} :
        (pending_sol_payments[p].status \in {"pending", "processing"})
            ~> (pending_sol_payments[p].status \in
                    {"confirmed", "failed", "expired", "cancelled"})

\* an intent whose confirmation was rolled back, because the transfer had
\* been recorded for the other intent, is processing with nobody working on it
C40_Witness ==
    \E p \in Rows :
        /\ pending_sol_payments[p].status = "processing"
        /\ \A w \in Workers : worker[w].pc = "sleep"
        /\ IsProcessed(1)

====
